---- MODULE Spec2Model ----
(***************************************************************************)
(* Model of the HT1621 high level analyzer (src/HT1621.py): the Hla        *)
(* decoder fed with 'enable' / 'result' / 'disable' / other frames of the  *)
(* SPI analyzer, and the command table matcher lookup_command.             *)
(*                                                                         *)
(* Python's None is the empty tuple <<>> and a present value x is <<x>>.   *)
(* A dict is the sequence of its <<key, value>> pairs in insertion order.  *)
(***************************************************************************)
EXTENDS Integers, Sequences, FiniteSets, TLC

\* Number of 'result' frames the bus layer delivers in one run of well-formed
\* frames and arbitrarily placed framing events.
MaxBits == 13
\* Number of 'result' frames the bus layer delivers in a run that is a single
\* transaction: enable, well-formed frames, disable (a data burst).
MaxBurstBits == 17
\* Number of 'result' frames the bus layer delivers in one run in which
\* frames may lack their payload, and how many of them do.
MaxFaultyBits == 11
MaxBad == 1
MaxCommandBits == 21

None == <<>>
Some(x) == <<x>>

\* The payload of a 'result' frame: Some(codeb[0]), one bit per transfer, or
\* None when frame.data has no 'mosi' entry.
Payloads == {Some(0), Some(1), None}

\* DECODER_STATE
START == "START"
GET_MODE == "GET_MODE"
GET_ADDRESS == "GET_ADDRESS"
GET_DATA_NIBBLES == "GET_DATA_NIBBLES"
GET_COMMAND == "GET_COMMAND"

(***************************************************************************)
(* Python integer operators on naturals.                                   *)
(***************************************************************************)
RECURSIVE Pow2(_)
Pow2(k) == IF k = 0 THEN 1 ELSE 2 * Pow2(k - 1)

\* a << k
Shl(a, k) == a * Pow2(k)

RECURSIVE BitOr(_, _)
\* a | b
BitOr(a, b) ==
    IF a = 0 THEN b
    ELSE IF b = 0 THEN a
    ELSE (IF a % 2 = 1 \/ b % 2 = 1 THEN 1 ELSE 0) + 2 * BitOr(a \div 2, b \div 2)

RECURSIVE BitAnd(_, _)
\* a & b
BitAnd(a, b) ==
    IF a = 0 \/ b = 0 THEN 0
    ELSE (IF a % 2 = 1 /\ b % 2 = 1 THEN 1 ELSE 0) + 2 * BitAnd(a \div 2, b \div 2)

(***************************************************************************)
(* Python string formatting.                                               *)
(***************************************************************************)
Digits == <<"0", "1", "2", "3", "4", "5", "6", "7", "8", "9",
            "a", "b", "c", "d", "e", "f">>

RECURSIVE FmtBase(_, _)
\* the digits of n in the given base, no padding: format(n, 'x' | 'b' | 'd')
FmtBase(n, base) ==
    IF n < base THEN Digits[n + 1]
    ELSE FmtBase(n \div base, base) \o Digits[(n % base) + 1]

RECURSIVE ZeroPad(_, _)
\* the '0<width>' part of a format spec: left-pad with zeros up to width
ZeroPad(s, width) == IF Len(s) >= width THEN s ELSE ZeroPad("0" \o s, width)

\* f"0x{address:02x}"
FmtAddress(address) == "0x" \o ZeroPad(FmtBase(address, 16), 2)
\* f"0x{nibble:x}"
FmtNibble(nibble) == "0x" \o FmtBase(nibble, 16)
\* f"0b{self.command_bits:09b}"
FmtCommandBits(bits) == "0b" \o ZeroPad(FmtBase(bits, 2), 9)
\* f'data{i}'
FmtDataKey(i) == "data" \o FmtBase(i, 10)
\* f"Unknown Mode {mode}"
FmtUnknownMode(mode) == "Unknown Mode " \o FmtBase(mode, 10)

(***************************************************************************)
(* HT1621_MODE and HT1621_COMMAND.                                         *)
(***************************************************************************)
\* HT1621_MODE.get(mode, f"Unknown Mode {mode}")
HT1621_MODE(mode) ==
    CASE mode = 6 -> "Read (0b110)"
      [] mode = 5 -> "Write (0b101)"
      [] mode = 4 -> "Command (0b100)"
      [] OTHER -> FmtUnknownMode(mode)

Cmd(n, v, m) == [name |-> n, value |-> v, mask |-> m]

HT1621_COMMAND == <<
    Cmd("SYS DIS",     0, 510),
    Cmd("SYS EN",      2, 510),
    Cmd("LCD OFF",     4, 510),
    Cmd("LCD ON",      6, 510),
    Cmd("TIMER DIS",   8, 510),
    Cmd("WDT DIS",    10, 510),
    Cmd("TIMER EN",   12, 510),
    Cmd("WDT EN",     14, 510),
    Cmd("TONE OFF",   16, 510),
    Cmd("TONE ON",    18, 510),
    Cmd("CLR TIMER",  24, 504),
    Cmd("CLR WDT",    28, 508),
    Cmd("XTAL 32K",   40, 504),
    Cmd("RC 256K",    48, 504),
    Cmd("EXT 256K",   56, 504),
    Cmd("BIAS 1/2",   64, 482),
    Cmd("BIAS 1/3",   66, 482),
    Cmd("TONE 4K",   128, 448),
    Cmd("TONE 2K",   192, 448),
    Cmd("IRQ DIS",   256, 464),
    Cmd("IRQ EN",    272, 464),
    Cmd("F1",        320, 462),
    Cmd("F2",        322, 462),
    Cmd("F4",        324, 462),
    Cmd("F8",        326, 462),
    Cmd("F16",       328, 462),
    Cmd("F32",       330, 462),
    Cmd("F64",       332, 462),
    Cmd("F128",      334, 462),
    Cmd("TEST",      448, 510),
    Cmd("NORMAL",    454, 510) >>

\* the test of the loop body of lookup_command
CmdMatches(bits, cmd) == BitAnd(bits, cmd.mask) = BitAnd(cmd.value, cmd.mask)

RECURSIVE lookup_last(_, _)
\* lookup_from with the table scanned to its end: the last match wins
lookup_last(bits, i) ==
    IF i > Len(HT1621_COMMAND) THEN None
    ELSE LET later == lookup_last(bits, i + 1)
         IN  IF later # None THEN later
             ELSE IF CmdMatches(bits, HT1621_COMMAND[i])
                  THEN Some(HT1621_COMMAND[i].name)
                  ELSE None

RECURSIVE lookup_from(_, _)
\* the for loop of lookup_command, from entry i on
lookup_from(bits, i) ==
    IF i > Len(HT1621_COMMAND) THEN None
    ELSE IF CmdMatches(bits, HT1621_COMMAND[i]) THEN Some(HT1621_COMMAND[i].name)
    ELSE lookup_from(bits, i + 1)

lookup_command(bits) == lookup_from(bits, 1)

VARIABLES
    \* attributes of the Hla instance
    state, mode_buffer, address_buffer, data_buffer, nibble_list,
    command_buffer, transaction_start_time, transaction_end_time, mode_type,
    command_value, command_bits,
    address_value,      \* None while the instance has no such attribute
    \* outcome of the last call of decode
    ret,                \* the returned value
    raised,             \* TRUE when the call left decode by an exception
    \* the frames delivered so far
    profile,            \* the kind of run: "mixed", "burst", "faulty" or
                        \* "command"
    ev,                 \* type of the last frame
    malformed,          \* TRUE when the last frame was a 'result' frame
                        \* without 'mosi' payload
    prev_state,         \* self.state when the last frame arrived
    win,                \* payloads of the 'result' frames routed to a collector
                        \* since the last 'enable'
    window_records,     \* records returned since the last 'enable' by frames
                        \* that arrived before the window was closed
    discarded,          \* Some(n) when the last 'enable' arrived in a
                        \* collecting state, with n frames in its window;
                        \* None when it arrived in START
    now,                \* number of 'result' frames so far: the bus clock
    nbad,               \* number of 'result' frames without payload so far
    \* attributes of an Hla instance of HighLevelAnalyzer.py that receives
    \* the same frames
    h_state, h_mode_buffer, h_address_buffer, h_data_buffer, h_nibble_list,
    h_transaction_data, h_transaction_start_time, h_transaction_end_time,
    h_mode_type,
    h_address_value,    \* None while the instance has no such attribute
    \* outcome of its last call of decode
    h_ret, h_raised

hlaVars == <<state, mode_buffer, address_buffer, data_buffer, nibble_list,
             command_buffer, transaction_start_time, transaction_end_time,
             mode_type, command_value, command_bits, address_value>>
vars == <<state, mode_buffer, address_buffer, data_buffer, nibble_list,
          command_buffer, transaction_start_time, transaction_end_time,
          mode_type, command_value, command_bits, address_value,
          ret, raised, profile, ev, malformed, prev_state, win, window_records,
          discarded, now, nbad,
          h_state, h_mode_buffer, h_address_buffer, h_data_buffer,
          h_nibble_list, h_transaction_data, h_transaction_start_time,
          h_transaction_end_time, h_mode_type, h_address_value, h_ret,
          h_raised>>

(***************************************************************************)
(* The Hla class of HighLevelAnalyzer.py.                                  *)
(***************************************************************************)
h_hlaVars == <<h_state, h_mode_buffer, h_address_buffer, h_data_buffer,
               h_nibble_list, h_transaction_data, h_transaction_start_time,
               h_transaction_end_time, h_mode_type, h_address_value>>

\* HT1621_CMD.get(mode, f"Unknown Mode {mode}")
HT1621_CMD(mode) ==
    CASE mode = 6 -> "Read (0b110)"
      [] mode = 5 -> "Write (0b101)"
      [] mode = 4 -> "Command (0b100)"
      [] OTHER -> FmtUnknownMode(mode)

\* Hla.__init__ of HighLevelAnalyzer.py
h_Constructed ==
    /\ h_state = START
    /\ h_mode_buffer = <<>>
    /\ h_address_buffer = <<>>
    /\ h_data_buffer = <<>>
    /\ h_nibble_list = <<>>
    /\ h_transaction_data = <<>>
    /\ h_transaction_start_time = None
    /\ h_transaction_end_time = None
    /\ h_mode_type = None
    /\ h_address_value = None
    /\ h_ret = None
    /\ h_raised = FALSE

\* decode, frame.type == 'enable'
h_Enable ==
    /\ h_state' = GET_MODE
    /\ h_mode_buffer' = <<>>
    /\ h_address_buffer' = <<>>
    /\ h_data_buffer' = <<>>
    /\ h_nibble_list' = <<>>
    /\ h_transaction_data' = <<>>
    /\ h_transaction_start_time' = None
    /\ h_transaction_end_time' = None
    /\ h_mode_type' = None
    /\ UNCHANGED h_address_value
    /\ h_ret' = None
    /\ h_raised' = FALSE

\* decode_mode: mode_buffer[0] << 2 | mode_buffer[1] << 1 | mode_buffer[2]
h_ModeValue(buf) == BitOr(BitOr(Shl(buf[1], 2), Shl(buf[2], 1)), buf[3])

\* decode_mode; every mode goes on to the address
h_DecodeMode(payload) ==
    /\ h_transaction_start_time' =
          IF Len(h_mode_buffer) = 0 THEN Some(now)
          ELSE h_transaction_start_time
    /\ IF payload = None
       THEN /\ UNCHANGED <<h_state, h_mode_buffer, h_address_buffer,
                           h_mode_type>>
            /\ h_raised' = TRUE
       ELSE LET buf == Append(h_mode_buffer, payload[1])
            IN  /\ h_mode_buffer' = buf
                /\ IF Len(buf) = 3
                   THEN /\ h_mode_type' = Some(HT1621_CMD(h_ModeValue(buf)))
                        /\ h_state' = GET_ADDRESS
                        /\ h_address_buffer' = <<>>
                   ELSE UNCHANGED <<h_mode_type, h_state, h_address_buffer>>
                /\ h_raised' = FALSE
    /\ UNCHANGED <<h_data_buffer, h_nibble_list, h_transaction_data,
                   h_transaction_end_time, h_address_value>>
    /\ h_ret' = None

\* decode_address: the 6 buffered bits, first bit most significant
h_AddressValue(buf) ==
    BitOr(BitOr(BitOr(BitOr(BitOr(Shl(buf[1], 5), Shl(buf[2], 4)),
                            Shl(buf[3], 3)), Shl(buf[4], 2)),
                Shl(buf[5], 1)), buf[6])

\* decode_address
h_DecodeAddress(payload) ==
    /\ IF payload = None
       THEN /\ UNCHANGED <<h_state, h_address_buffer, h_data_buffer,
                           h_address_value>>
            /\ h_raised' = TRUE
       ELSE LET buf == Append(h_address_buffer, payload[1])
            IN  /\ h_address_buffer' = buf
                /\ IF Len(buf) = 6
                   THEN /\ h_address_value' =
                              Some(FmtAddress(h_AddressValue(buf)))
                        /\ h_state' = GET_DATA_NIBBLES
                        /\ h_data_buffer' = <<>>
                   ELSE UNCHANGED <<h_address_value, h_state, h_data_buffer>>
                /\ h_raised' = FALSE
    /\ UNCHANGED <<h_mode_buffer, h_nibble_list, h_transaction_data,
                   h_transaction_start_time, h_transaction_end_time,
                   h_mode_type>>
    /\ h_ret' = None

\* h_NibbleValue with the first bit least significant
h_NibbleValue_lsb(buf) ==
    BitOr(BitOr(BitOr(Shl(buf[4], 3), Shl(buf[3], 2)), Shl(buf[2], 1)), buf[1])

\* decode_nibble: the 4 buffered bits, first bit most significant
h_NibbleValue(buf) ==
    BitOr(BitOr(BitOr(Shl(buf[1], 3), Shl(buf[2], 2)), Shl(buf[3], 1)), buf[4])

\* decode_nibble
h_DecodeNibble(payload) ==
    /\ IF payload = None
       THEN /\ UNCHANGED <<h_data_buffer, h_nibble_list,
                           h_transaction_end_time>>
            /\ h_raised' = TRUE
       ELSE LET buf == Append(h_data_buffer, payload[1])
            IN  /\ IF Len(buf) = 4
                   THEN /\ h_nibble_list' =
                              Append(h_nibble_list, h_NibbleValue(buf))
                        /\ h_data_buffer' = <<>>
                        /\ h_transaction_end_time' = Some(now + 1)
                   ELSE /\ h_data_buffer' = buf
                        /\ UNCHANGED <<h_nibble_list, h_transaction_end_time>>
                /\ h_raised' = FALSE
    /\ UNCHANGED <<h_state, h_mode_buffer, h_address_buffer,
                   h_transaction_data, h_transaction_start_time, h_mode_type,
                   h_address_value>>
    /\ h_ret' = None

\* decode, frame.type == 'result': the collector of the current state, none
\* in START
h_Result(payload) ==
    CASE h_state = GET_MODE -> h_DecodeMode(payload)
      [] h_state = GET_ADDRESS -> h_DecodeAddress(payload)
      [] h_state = GET_DATA_NIBBLES -> h_DecodeNibble(payload)
      [] OTHER -> /\ UNCHANGED h_hlaVars
                  /\ h_ret' = None
                  /\ h_raised' = FALSE

\* decode, 'disable': data_dict, the address when the attribute exists, then
\* the entries data{i}
h_DataDict ==
    (IF h_address_value # None
     THEN << <<"address", h_address_value>> >> ELSE <<>>)
    \o [i \in 1..Len(h_nibble_list) |->
           <<FmtDataKey(i - 1), Some(FmtNibble(h_nibble_list[i]))>>]

\* decode, 'disable': the value returned
h_DisableFrame ==
    IF /\ h_transaction_start_time # None
       /\ h_transaction_end_time # None
       /\ h_mode_type # None
    THEN Some([type |-> h_mode_type[1],
               start_time |-> h_transaction_start_time[1],
               end_time |-> h_transaction_end_time[1],
               data |-> h_DataDict])
    ELSE None

\* decode, frame.type == 'disable'
h_Disable ==
    /\ h_state' = START
    /\ UNCHANGED <<h_mode_buffer, h_address_buffer, h_data_buffer,
                   h_nibble_list, h_transaction_data,
                   h_transaction_start_time, h_transaction_end_time,
                   h_mode_type, h_address_value>>
    /\ h_ret' = h_DisableFrame
    /\ h_raised' = FALSE

\* Hla.decode of HighLevelAnalyzer.py, called with the frame that the decoder
\* of HT1621.py receives
h_decode(type, payload) ==
    CASE type = "enable" -> h_Enable
      [] type = "disable" -> h_Disable
      [] OTHER -> h_Result(payload)

\* Hla.__init__, before any frame
Constructed ==
    /\ state = START
    /\ mode_buffer = <<>>
    /\ address_buffer = <<>>
    /\ data_buffer = <<>>
    /\ nibble_list = <<>>
    /\ command_buffer = <<>>
    /\ transaction_start_time = None
    /\ transaction_end_time = None
    /\ mode_type = None
    /\ command_value = None
    /\ command_bits = None
    /\ address_value = None
    /\ ret = None
    /\ raised = FALSE
    /\ ev = "init"
    /\ malformed = FALSE
    /\ prev_state = START
    /\ win = <<>>
    /\ window_records = 0
    /\ discarded = None
    /\ now = 0
    /\ h_Constructed
    /\ nbad = 0

Init == Constructed /\ profile = "mixed"
InitBurst == Constructed /\ profile = "burst"
InitFaulty == Constructed /\ profile = "faulty"
InitCommand == Constructed /\ profile = "command"

\* how many 'result' frames a run of the profile holds
FrameLimit ==
    CASE profile = "burst" -> MaxBurstBits
      [] profile = "faulty" -> MaxFaultyBits
      [] profile = "command" -> MaxCommandBits
      [] OTHER -> MaxBits

\* One call decode(frame) of the given type and payload was made in the
\* current state; it returned result, or left by an exception when exc.
Called(type, payload, result, exc) ==
    /\ h_decode(type, payload)
    /\ ev' = type
    /\ malformed' = (type = "result" /\ payload = None)
    /\ profile' = profile
    /\ prev_state' = state
    /\ ret' = result
    /\ raised' = exc
    /\ discarded' = IF type # "enable" THEN discarded
                     ELSE IF state # START THEN Some(Len(win))
                     ELSE None
    /\ win' = IF type = "enable" THEN <<>>
              ELSE IF type = "result" /\ state # START THEN Append(win, payload)
              ELSE win
    /\ window_records' =
          IF type = "enable" THEN 0
          ELSE IF state # START /\ result # None THEN window_records + 1
          ELSE window_records

\* The bus layer delivers a 'result' frame: start_time = now, end_time = now + 1.
ResultFrame(payload) ==
    /\ now < FrameLimit
    /\ payload = None => (profile = "faulty" /\ nbad < MaxBad)
    /\ now' = now + 1
    /\ nbad' = IF payload = None THEN nbad + 1 ELSE nbad

\* decode, 'disable': the entries data{i} of data_dict, in insertion order
DataEntries == [i \in 1..Len(nibble_list) |->
                   <<FmtDataKey(i - 1), Some(FmtNibble(nibble_list[i]))>>]

\* decode, 'disable': data_dict
DataDict ==
    IF mode_type = Some("Command (0b100)")
    THEN << <<"command",
              IF command_value # None /\ command_value # Some("")
              THEN command_value ELSE Some("Unknown Command")>>,
            <<"command_bits",
              IF command_bits # None
              THEN Some(FmtCommandBits(command_bits[1])) ELSE None>> >>
    ELSE (IF address_value # None
          THEN << <<"address", address_value>> >> ELSE <<>>) \o DataEntries

\* decode, 'disable': the value returned
DisableFrame ==
    IF /\ transaction_start_time # None
       /\ transaction_end_time # None
       /\ mode_type # None
    THEN Some([type |-> mode_type[1],
               start_time |-> transaction_start_time[1],
               end_time |-> transaction_end_time[1],
               data |-> DataDict])
    ELSE None

\* Enable that first returns the record of the transaction it interrupts
Enable_flushes ==
    /\ state' = GET_MODE
    /\ mode_buffer' = <<>>
    /\ address_buffer' = <<>>
    /\ data_buffer' = <<>>
    /\ nibble_list' = <<>>
    /\ command_buffer' = <<>>
    /\ transaction_start_time' = None
    /\ transaction_end_time' = None
    /\ mode_type' = None
    /\ command_value' = None
    /\ command_bits' = None
    /\ UNCHANGED <<address_value, now, nbad>>
    /\ Called("enable", None, DisableFrame, FALSE)

\* Enable that clears the state and the buffers but none of the derived
\* fields
Enable_keepsDerived ==
    /\ state' = GET_MODE
    /\ mode_buffer' = <<>>
    /\ address_buffer' = <<>>
    /\ data_buffer' = <<>>
    /\ nibble_list' = <<>>
    /\ command_buffer' = <<>>
    /\ UNCHANGED <<transaction_start_time, transaction_end_time, mode_type,
                   command_value, command_bits>>
    /\ UNCHANGED <<address_value, now, nbad>>
    /\ Called("enable", None, None, FALSE)

\* Enable that does nothing when a window is open
Enable_resumes ==
    /\ IF state = START
       THEN /\ state' = GET_MODE
            /\ mode_buffer' = <<>>
            /\ address_buffer' = <<>>
            /\ data_buffer' = <<>>
            /\ nibble_list' = <<>>
            /\ command_buffer' = <<>>
            /\ transaction_start_time' = None
            /\ transaction_end_time' = None
            /\ mode_type' = None
            /\ command_value' = None
            /\ command_bits' = None
            /\ UNCHANGED address_value
       ELSE UNCHANGED hlaVars
    /\ UNCHANGED <<now, nbad>>
    /\ Called("enable", None, None, FALSE)

\* decode, frame.type == 'enable'
Enable ==
    /\ state' = GET_MODE
    /\ mode_buffer' = <<>>
    /\ address_buffer' = <<>>
    /\ data_buffer' = <<>>
    /\ nibble_list' = <<>>
    /\ command_buffer' = <<>>
    /\ transaction_start_time' = None
    /\ transaction_end_time' = None
    /\ mode_type' = None
    /\ command_value' = None
    /\ command_bits' = None
    /\ UNCHANGED <<address_value, now, nbad>>
    /\ Called("enable", None, None, FALSE)

\* ModeValue with the first bit least significant
ModeValue_lsb(buf) == BitOr(BitOr(Shl(buf[3], 2), Shl(buf[2], 1)), buf[1])

\* decode_mode: mode_buffer[0] << 2 | mode_buffer[1] << 1 | mode_buffer[2]
ModeValue(buf) == BitOr(BitOr(Shl(buf[1], 2), Shl(buf[2], 1)), buf[3])

\* decode, frame.type == 'result' in GET_MODE: decode_mode
DecodeMode(payload) ==
    /\ state = GET_MODE
    /\ ResultFrame(payload)
    /\ transaction_start_time' =
          IF Len(mode_buffer) = 0 THEN Some(now) ELSE transaction_start_time
    /\ IF payload = None
       THEN \* frame.data['mosi'] raises KeyError
            /\ UNCHANGED <<state, mode_buffer, address_buffer, data_buffer,
                           nibble_list, command_buffer, transaction_end_time,
                           mode_type, command_value, command_bits,
                           address_value>>
            /\ Called("result", payload, None, TRUE)
       ELSE LET buf == Append(mode_buffer, payload[1])
                mode == ModeValue(buf)
            IN  /\ mode_buffer' = buf
                /\ IF Len(buf) = 3
                   THEN /\ mode_type' = Some(HT1621_MODE(mode))
                        /\ IF mode = 4
                           THEN /\ state' = GET_COMMAND
                                /\ command_buffer' = <<>>
                                /\ UNCHANGED address_buffer
                           ELSE /\ state' = GET_ADDRESS
                                /\ address_buffer' = <<>>
                                /\ UNCHANGED command_buffer
                   ELSE UNCHANGED <<mode_type, state, command_buffer,
                                    address_buffer>>
                /\ UNCHANGED <<data_buffer, nibble_list, transaction_end_time,
                               command_value, command_bits, address_value>>
                /\ Called("result", payload, None, FALSE)

\* decode_address: the 6 buffered bits, first bit most significant
AddressValue(buf) ==
    BitOr(BitOr(BitOr(BitOr(BitOr(Shl(buf[1], 5), Shl(buf[2], 4)),
                            Shl(buf[3], 3)), Shl(buf[4], 2)),
                Shl(buf[5], 1)), buf[6])

\* DecodeAddress that also stamps transaction_end_time when the address
\* completes
DecodeAddress_stampsEnd(payload) ==
    /\ state = GET_ADDRESS
    /\ ResultFrame(payload)
    /\ IF payload = None
       THEN /\ UNCHANGED hlaVars
            /\ Called("result", payload, None, TRUE)
       ELSE LET buf == Append(address_buffer, payload[1])
            IN  /\ address_buffer' = buf
                /\ IF Len(buf) = 6
                   THEN /\ address_value' = Some(FmtAddress(AddressValue(buf)))
                        /\ state' = GET_DATA_NIBBLES
                        /\ data_buffer' = <<>>
                        /\ transaction_end_time' = Some(now + 1)
                   ELSE UNCHANGED <<address_value, state, data_buffer,
                                    transaction_end_time>>
                /\ UNCHANGED <<mode_buffer, nibble_list, command_buffer,
                               transaction_start_time,
                               mode_type, command_value, command_bits>>
                /\ Called("result", payload, None, FALSE)

\* decode, frame.type == 'result' in GET_ADDRESS: decode_address
DecodeAddress(payload) ==
    /\ state = GET_ADDRESS
    /\ ResultFrame(payload)
    /\ IF payload = None
       THEN /\ UNCHANGED hlaVars
            /\ Called("result", payload, None, TRUE)
       ELSE LET buf == Append(address_buffer, payload[1])
            IN  /\ address_buffer' = buf
                /\ IF Len(buf) = 6
                   THEN /\ address_value' = Some(FmtAddress(AddressValue(buf)))
                        /\ state' = GET_DATA_NIBBLES
                        /\ data_buffer' = <<>>
                   ELSE UNCHANGED <<address_value, state, data_buffer>>
                /\ UNCHANGED <<mode_buffer, nibble_list, command_buffer,
                               transaction_start_time, transaction_end_time,
                               mode_type, command_value, command_bits>>
                /\ Called("result", payload, None, FALSE)

\* NibbleValue with the first bit least significant
NibbleValue_lsb(buf) ==
    BitOr(BitOr(BitOr(Shl(buf[4], 3), Shl(buf[3], 2)), Shl(buf[2], 1)), buf[1])

\* decode_nibble: the 4 buffered bits, first bit most significant
NibbleValue(buf) ==
    BitOr(BitOr(BitOr(Shl(buf[1], 3), Shl(buf[2], 2)), Shl(buf[3], 1)), buf[4])

\* DecodeNibble that stamps transaction_end_time at every bit
DecodeNibble_stampsEveryBit(payload) ==
    /\ state = GET_DATA_NIBBLES
    /\ ResultFrame(payload)
    /\ IF payload = None
       THEN /\ UNCHANGED hlaVars
            /\ Called("result", payload, None, TRUE)
       ELSE LET buf == Append(data_buffer, payload[1])
            IN  /\ IF Len(buf) = 4
                   THEN /\ nibble_list' = Append(nibble_list, NibbleValue(buf))
                        /\ data_buffer' = <<>>
                   ELSE /\ data_buffer' = buf
                        /\ UNCHANGED nibble_list
                /\ transaction_end_time' = Some(now + 1)
                /\ UNCHANGED <<state, mode_buffer, address_buffer,
                               command_buffer, transaction_start_time,
                               mode_type, command_value, command_bits,
                               address_value>>
                /\ Called("result", payload, None, FALSE)

\* decode, frame.type == 'result' in GET_DATA_NIBBLES: decode_nibble
DecodeNibble(payload) ==
    /\ state = GET_DATA_NIBBLES
    /\ ResultFrame(payload)
    /\ IF payload = None
       THEN /\ UNCHANGED hlaVars
            /\ Called("result", payload, None, TRUE)
       ELSE LET buf == Append(data_buffer, payload[1])
            IN  /\ IF Len(buf) = 4
                   THEN /\ nibble_list' = Append(nibble_list, NibbleValue(buf))
                        /\ data_buffer' = <<>>
                        /\ transaction_end_time' = Some(now + 1)
                   ELSE /\ data_buffer' = buf
                        /\ UNCHANGED <<nibble_list, transaction_end_time>>
                /\ UNCHANGED <<state, mode_buffer, address_buffer,
                               command_buffer, transaction_start_time,
                               mode_type, command_value, command_bits,
                               address_value>>
                /\ Called("result", payload, None, FALSE)

RECURSIVE CommandBitsFrom_lsb(_, _, _)
\* CommandBitsFrom with bits |= (bit << i): the first bit least significant
CommandBitsFrom_lsb(buf, i, bits) ==
    IF i >= Len(buf) THEN bits
    ELSE CommandBitsFrom_lsb(buf, i + 1, BitOr(bits, Shl(buf[i + 1], i)))

RECURSIVE CommandBitsFrom(_, _, _)
\* decode_command: for i, bit in enumerate(buf): bits |= (bit << (8 - i)),
\* from the i-th bit on (i counts from 0)
CommandBitsFrom(buf, i, bits) ==
    IF i >= Len(buf) THEN bits
    ELSE CommandBitsFrom(buf, i + 1, BitOr(bits, Shl(buf[i + 1], 8 - i)))

CommandBits(buf) == CommandBitsFrom(buf, 0, 0)

\* DecodeCommand that stamps transaction_end_time at the 9th bit and at
\* every bit after it
DecodeCommand_restamps(payload) ==
    /\ state = GET_COMMAND
    /\ ResultFrame(payload)
    /\ IF payload = None
       THEN /\ UNCHANGED hlaVars
            /\ Called("result", payload, None, TRUE)
       ELSE LET buf == Append(command_buffer, payload[1])
                bits == CommandBits(buf)
            IN  /\ command_buffer' = buf
                /\ IF Len(buf) = 9
                   THEN /\ command_bits' = Some(bits)
                        /\ command_value' = lookup_command(bits)
                   ELSE UNCHANGED <<command_bits, command_value>>
                /\ IF Len(buf) >= 9
                   THEN transaction_end_time' = Some(now + 1)
                   ELSE UNCHANGED transaction_end_time
                /\ UNCHANGED <<state, mode_buffer, address_buffer, data_buffer,
                               nibble_list, transaction_start_time, mode_type,
                               address_value>>
                /\ Called("result", payload, None, FALSE)

\* DecodeCommand that takes the last 9 bits as the command word at the 9th
\* bit and at every bit after it
DecodeCommand_slides(payload) ==
    /\ state = GET_COMMAND
    /\ ResultFrame(payload)
    /\ IF payload = None
       THEN /\ UNCHANGED hlaVars
            /\ Called("result", payload, None, TRUE)
       ELSE LET buf == Append(command_buffer, payload[1])
                bits == CommandBits(SubSeq(buf, Len(buf) - 8, Len(buf)))
            IN  /\ command_buffer' = buf
                /\ IF Len(buf) >= 9
                   THEN /\ command_bits' = Some(bits)
                        /\ command_value' = lookup_command(bits)
                        /\ transaction_end_time' = Some(now + 1)
                   ELSE UNCHANGED <<command_bits, command_value,
                                    transaction_end_time>>
                /\ UNCHANGED <<state, mode_buffer, address_buffer, data_buffer,
                               nibble_list, transaction_start_time, mode_type,
                               address_value>>
                /\ Called("result", payload, None, FALSE)

\* decode, frame.type == 'result' in GET_COMMAND: decode_command
DecodeCommand(payload) ==
    /\ state = GET_COMMAND
    /\ ResultFrame(payload)
    /\ IF payload = None
       THEN /\ UNCHANGED hlaVars
            /\ Called("result", payload, None, TRUE)
       ELSE LET buf == Append(command_buffer, payload[1])
                bits == CommandBits(buf)
            IN  /\ command_buffer' = buf
                /\ IF Len(buf) = 9
                   THEN /\ command_bits' = Some(bits)
                        /\ command_value' = lookup_command(bits)
                        /\ transaction_end_time' = Some(now + 1)
                   ELSE UNCHANGED <<command_bits, command_value,
                                    transaction_end_time>>
                /\ UNCHANGED <<state, mode_buffer, address_buffer, data_buffer,
                               nibble_list, transaction_start_time, mode_type,
                               address_value>>
                /\ Called("result", payload, None, FALSE)

\* ResultIdle that hands the frame to the mode collector
ResultIdle_collects(payload) ==
    /\ state = START
    /\ ResultFrame(payload)
    /\ mode_buffer' = IF payload = None THEN mode_buffer
                      ELSE Append(mode_buffer, payload[1])
    /\ UNCHANGED <<state, address_buffer, data_buffer, nibble_list,
                   command_buffer, transaction_start_time,
                   transaction_end_time, mode_type, command_value,
                   command_bits, address_value>>
    /\ Called("result", payload, None, FALSE)

\* decode, frame.type == 'result' in START: no collector is called
ResultIdle(payload) ==
    /\ state = START
    /\ ResultFrame(payload)
    /\ UNCHANGED hlaVars
    /\ Called("result", payload, None, FALSE)

\* decode, frame.type == 'disable'
Disable ==
    /\ state' = START
    /\ UNCHANGED <<mode_buffer, address_buffer, data_buffer, nibble_list,
                   command_buffer, transaction_start_time,
                   transaction_end_time, mode_type, command_value,
                   command_bits, address_value, now, nbad>>
    /\ Called("disable", None, DisableFrame, FALSE)

BitPayloads == {Some(0), Some(1)}

\* well-formed 'result' frames, framing events at any time
Next ==
    \/ Enable
    \/ \E payload \in BitPayloads : DecodeMode(payload)
    \/ \E payload \in BitPayloads : DecodeAddress(payload)
    \/ \E payload \in BitPayloads : DecodeNibble(payload)
    \/ \E payload \in BitPayloads : DecodeCommand(payload)
    \/ \E payload \in BitPayloads : ResultIdle(payload)
    \/ Disable

Spec == Init /\ [][Next]_vars

\* one transaction fed to a new decoder: enable, well-formed frames, disable
NextBurst ==
    \/ (ev = "init" /\ Enable)
    \/ \E payload \in BitPayloads : DecodeMode(payload)
    \/ \E payload \in BitPayloads : DecodeAddress(payload)
    \/ \E payload \in BitPayloads : DecodeNibble(payload)
    \/ \E payload \in BitPayloads : DecodeCommand(payload)
    \/ (state # START /\ Disable)

SpecBurst == InitBurst /\ [][NextBurst]_vars

\* 'result' frames with or without payload, framing events at any time
NextFaulty ==
    \/ Enable
    \/ \E payload \in Payloads : DecodeMode(payload)
    \/ \E payload \in Payloads : DecodeAddress(payload)
    \/ \E payload \in Payloads : DecodeNibble(payload)
    \/ \E payload \in Payloads : DecodeCommand(payload)
    \/ \E payload \in Payloads : ResultIdle(payload)
    \/ Disable

SpecFaulty == InitFaulty /\ [][NextFaulty]_vars

\* the next mode bit of a command transaction: 1, 0, 0
CommandModeBit == Some(IF mode_buffer = <<>> THEN 1 ELSE 0)

\* one command-mode transaction fed to a new decoder: enable, the mode bits
\* 1,0,0, any command bits, disable
NextCommand ==
    \/ (ev = "init" /\ Enable)
    \/ DecodeMode(CommandModeBit)
    \/ \E payload \in BitPayloads : DecodeCommand(payload)
    \/ (state # START /\ Disable)

SpecCommand == InitCommand /\ [][NextCommand]_vars

(***************************************************************************)
(* The documented behaviour, stated over the frames of the current window. *)
(***************************************************************************)
\* the window was open when the last frame, a 'disable', arrived
WindowClosed == ev = "disable" /\ prev_state # START

\* every frame of the window carried a bit
WellFormed == \A i \in 1..Len(win) : win[i] # None

\* the bits of the window, in arrival order
WinBits == [i \in 1..Len(win) |-> win[i][1]]

RECURSIVE MsbFirst(_)
\* the number a bit sequence spells, first bit most significant
MsbFirst(bits) ==
    IF bits = <<>> THEN 0
    ELSE 2 * MsbFirst(SubSeq(bits, 1, Len(bits) - 1)) + bits[Len(bits)]

WinMode == MsbFirst(SubSeq(WinBits, 1, 3))
WinAddress == MsbFirst(SubSeq(WinBits, 4, 9))
\* the i-th group of 4 bits after the address, i from 0
WinNibble(i) == MsbFirst(SubSeq(WinBits, 10 + 4 * i, 13 + 4 * i))
WinNibbleCount == (Len(win) - 9) \div 4
WinCommandBits == SubSeq(WinBits, 4, 12)

\* bit k of n, k = 0 the least significant
BitOf(n, k) == (n \div Pow2(k)) % 2

HexChars == <<"0", "1", "2", "3", "4", "5", "6", "7",
              "8", "9", "a", "b", "c", "d", "e", "f">>
TwoHexDigits(n) == "0x" \o HexChars[(n \div 16) + 1] \o HexChars[(n % 16) + 1]
OneHexDigit(n) == "0x" \o HexChars[n + 1]

RECURSIVE BitString(_)
\* the bits written out one character each
BitString(bits) ==
    IF bits = <<>> THEN ""
    ELSE (IF Head(bits) = 1 THEN "1" ELSE "0") \o BitString(Tail(bits))

ModeLabel(mode) ==
    CASE mode = 6 -> "Read (0b110)"
      [] mode = 5 -> "Write (0b101)"
      [] mode = 4 -> "Command (0b100)"
      [] OTHER -> "Unknown Mode " \o HexChars[mode + 1]

\* the window holds a complete transaction
WinComplete ==
    /\ Len(win) >= 3
    /\ \/ WinMode # 4 /\ Len(win) >= 13
       \/ WinMode = 4 /\ Len(win) >= 12

\* C1: completeness or silence. The disable that closes a window of n
\* well-formed bit frames returns a record if and only if the 3 mode bits
\* arrived and either the mode is not 0b100 and n >= 13 or the mode is 0b100
\* and n >= 12; otherwise it returns None.
C1_CompletenessOrSilence ==
    (WindowClosed /\ WellFormed) => ((ret # None) <=> WinComplete)

\* a Write window of exactly 13 bits (mode, address, one nibble) emitted a
\* record
C1_Witness ==
    /\ WindowClosed
    /\ Len(win) = 13
    /\ WinMode = 5
    /\ ret # None

\* the indices of the table entries that bits matches: bits agrees with the
\* entry's value on every bit the mask selects
MatchingEntries(bits) ==
    {i \in 1..Len(HT1621_COMMAND) :
        \A k \in 0..8 :
            BitOf(HT1621_COMMAND[i].mask, k) = 1
                => BitOf(bits, k) = BitOf(HT1621_COMMAND[i].value, k)}

FirstOf(S) == CHOOSE i \in S : \A j \in S : i <= j

\* C2: lookup_command is first-match-wins. The name stored for a command
\* word is that of the lowest-index entry of HT1621_COMMAND that the word
\* matches, and None exactly when no entry matches it.
C2_FirstMatchWins ==
    command_bits # None =>
        LET hits == MatchingEntries(command_bits[1])
        IN  /\ command_bits[1] \in 0..511
            /\ command_value =
                 IF hits = {} THEN None
                 ELSE Some(HT1621_COMMAND[FirstOf(hits)].name)

\* 0b000011100 matches CLR TIMER and CLR WDT, and CLR TIMER was returned
C2_Witness ==
    /\ command_bits = Some(28)
    /\ Cardinality(MatchingEntries(28)) = 2
    /\ command_value = Some("CLR TIMER")

\* the fields of an address-mode record: the address, then one entry per
\* complete group of 4 bits
AddressFields ==
    << <<"address", Some(TwoHexDigits(WinAddress))>> >>
    \o [i \in 1..WinNibbleCount |->
           <<"data" \o HexChars[i], Some(OneHexDigit(WinNibble(i - 1)))>>]

\* C3: multi-nibble accumulation. A transaction of 3 mode bits with mode not
\* 0b100, 6 address bits and m >= 4 further bits emits a record whose address
\* is the 6 address bits, first bit most significant, as two hex digits, and
\* whose data fields data0..data(k-1), k = floor(m/4), are the consecutive
\* groups of 4 bits, first bit most significant, in arrival order.
C3_MultiNibble ==
    (WindowClosed /\ WellFormed /\ Len(win) >= 13 /\ WinMode # 4) =>
        /\ ret # None
        /\ ret[1].type = ModeLabel(WinMode)
        /\ ret[1].data = AddressFields

\* Write, address bits 000001, nibbles 1000 and 0001
C3_Witness ==
    /\ WindowClosed
    /\ WinBits = <<1, 0, 1, 0, 0, 0, 0, 0, 1, 1, 0, 0, 0, 0, 0, 0, 1>>
    /\ ret # None
    /\ ret[1].type = "Write (0b101)"
    /\ ret[1].data = << <<"address", Some("0x01")>>,
                        <<"data0", Some("0x8")>>,
                        <<"data1", Some("0x1")>> >>

\* lookup_command, tabulated over the 9-bit words
CommandNameOf == [bits \in 0..511 |-> lookup_command(bits)]

\* the fields of a command-mode record, from the first 9 command bits
CommandFields ==
    LET name == CommandNameOf[MsbFirst(WinCommandBits)]
    IN  << <<"command",
             IF name = None THEN Some("Unknown Command") ELSE name>>,
           <<"command_bits", Some("0b" \o BitString(WinCommandBits))>> >>

\* C4: command classification end to end. A transaction of mode bits 1,0,0
\* and 9 command bits emits a record labelled "Command (0b100)" whose
\* command_bits is the 9 bits as a binary string, whose command is
\* lookup_command of their value, first bit most significant, or
\* "Unknown Command" without a match, and which has no other field.
C4_CommandRecord ==
    (WindowClosed /\ WellFormed /\ Len(win) = 12 /\ WinMode = 4) =>
        /\ ret # None
        /\ ret[1].type = "Command (0b100)"
        /\ ret[1].data = CommandFields

\* nine zero bits give SYS DIS
C4_Witness ==
    /\ WindowClosed
    /\ WinBits = <<1, 0, 0, 0, 0, 0, 0, 0, 0, 0, 0, 0>>
    /\ ret # None
    /\ ret[1].data = << <<"command", Some("SYS DIS")>>,
                        <<"command_bits", Some("0b000000000")>> >>

\* C5: mode classification. Once 3 bits followed the enable, the label is
\* that of mode = b0<<2 | b1<<1 | b2 ("Unknown Mode <n>" outside 4, 5, 6),
\* before that there is none; the command collector runs if and only if
\* mode = 0b100, every other mode collects 6 address bits and then nibbles.
C5_ModeClassification ==
    (state # START /\ WellFormed) =>
        IF Len(win) < 3
        THEN mode_type = None /\ state = GET_MODE
        ELSE /\ mode_type = Some(ModeLabel(WinMode))
             /\ state = IF WinMode = 4 THEN GET_COMMAND
                         ELSE IF Len(win) < 9 THEN GET_ADDRESS
                         ELSE GET_DATA_NIBBLES

\* the third bit completed the unknown mode 7, and the address follows
C5_Witness ==
    /\ ev = "result"
    /\ prev_state = GET_MODE
    /\ WinBits = <<1, 1, 1>>
    /\ mode_type = Some("Unknown Mode 7")
    /\ state = GET_ADDRESS

\* C6: zero or one record per framing window. Enable and bit frames return
\* None, only a disable returns a record, and a window (one enable, its bit
\* frames, one disable) returns at most one.
C6_ZeroOrOneRecord ==
    /\ ret # None => ev = "disable"
    /\ ev \in {"enable", "result"} => ret = None
    /\ window_records <= 1

\* the disable that closed a window returned the window's one record
C6_Witness ==
    /\ WindowClosed
    /\ ret # None
    /\ window_records = 1

\* the disable arrived while the field being collected was short of its width
FieldIncomplete ==
    /\ ev = "disable"
    /\ \/ prev_state = GET_MODE /\ Len(mode_buffer) < 3
       \/ prev_state = GET_ADDRESS /\ Len(address_buffer) < 6
       \/ prev_state = GET_DATA_NIBBLES /\ Len(data_buffer) \in 1..3
       \/ prev_state = GET_COMMAND /\ Len(command_buffer) < 9

\* C7 as stated: a disable that arrives while the field being collected
\* holds fewer bits than its width (mode < 3, address < 6, nibble with 1..3
\* bits, command < 9) returns no record.
C7_IncompleteFieldSuppresses == FieldIncomplete => ret = None

\* C7, amended: such a disable returns no record, except that a nibble of
\* 1..3 bits that follows at least one complete nibble is dropped alone: the
\* record is returned and carries the address and the complete nibbles only.
C7_IncompleteFieldAmended ==
    FieldIncomplete =>
        IF prev_state = GET_DATA_NIBBLES /\ nibble_list # <<>>
        THEN /\ ret # None
             /\ ret[1].data = AddressFields
             /\ Len(ret[1].data) = 1 + Len(nibble_list)
        ELSE ret = None

\* mode, address and 2 bits of the first nibble: nothing is returned
C7_Witness ==
    /\ FieldIncomplete
    /\ prev_state = GET_DATA_NIBBLES
    /\ Len(data_buffer) = 2
    /\ nibble_list = <<>>
    /\ ret = None

\* C8: trailing partial bits are discarded. In an address-mode transaction
\* with at least one complete nibble, a further bit that does not complete a
\* nibble raises no error and leaves the record a disable returns (label,
\* start_time, end_time, address, data fields) what it was without that bit.
C8_TrailingBitsDiscarded ==
    [][(/\ state = GET_DATA_NIBBLES
        /\ nibble_list # <<>>
        /\ ev' = "result"
        /\ Len(data_buffer') \in 1..3)
       => (DisableFrame' = DisableFrame /\ ~raised')]_vars

\* a record was returned with 3 bits of a second nibble pending
C8_Witness ==
    /\ WindowClosed
    /\ prev_state = GET_DATA_NIBBLES
    /\ Len(nibble_list) = 1
    /\ Len(data_buffer) = 3
    /\ ret # None
    /\ Len(ret[1].data) = 2

\* C9 as stated: a 'result' frame without 'mosi' payload raises no error and
\* leaves every attribute of the decoder what it was, in every collection
\* state.
C9_MalformedIgnored ==
    [][malformed' => (~raised' /\ UNCHANGED hlaVars)]_vars

\* the record a window's frames alone determine, without its time stamps
ExpectedRecord ==
    IF WinComplete
    THEN Some([type |-> ModeLabel(WinMode),
               data |-> IF WinMode = 4 THEN CommandFields ELSE AddressFields])
    ELSE None

\* what the last call returned, without the time stamps
Returned ==
    IF ret = None THEN None
    ELSE Some([type |-> ret[1].type, data |-> ret[1].data])

\* C10: no cross-transaction leakage. What the disable closing a window
\* returns (label and fields, or None) is a function of the frames received
\* since the window's enable, whatever the frames before that enable were.
C10_NoLeak == (WindowClosed /\ WellFormed) => Returned = ExpectedRecord

\* an earlier window stored an address; a command window of 3 bits that
\* follows it returns None, as on a new decoder
C10_Witness ==
    /\ WindowClosed
    /\ address_value # None
    /\ WinBits = <<1, 0, 0>>
    /\ ret = None

\* C12 as stated: after any enable the state is GET_MODE and every
\* accumulator and derived field, the stored address value included, has the
\* value it has in a newly constructed decoder.
C12_FullReset ==
    ev = "enable" =>
        /\ state = GET_MODE
        /\ mode_buffer = <<>>
        /\ address_buffer = <<>>
        /\ data_buffer = <<>>
        /\ command_buffer = <<>>
        /\ nibble_list = <<>>
        /\ transaction_start_time = None
        /\ transaction_end_time = None
        /\ mode_type = None
        /\ command_value = None
        /\ command_bits = None
        /\ address_value = None

\* C13 as stated: mode_buffer never holds more than 3 bits, address_buffer
\* 6, data_buffer 3 between frames, command_buffer 9, however many bit
\* frames one window holds.
C13_WidthBounds ==
    /\ Len(mode_buffer) <= 3
    /\ Len(address_buffer) <= 6
    /\ Len(data_buffer) < 4
    /\ Len(command_buffer) <= 9

\* one call of decode, seen from the transition graph
C14_Step ==
    /\ (ev' = "disable") => (state' = START)
    /\ (ev' = "enable") => (state' = GET_MODE)
    /\ (ev' = "result" /\ state' # state) =>
          (\/ /\ state = GET_MODE
              /\ Len(mode_buffer') = 3
              /\ state' \in {GET_COMMAND, GET_ADDRESS}
           \/ /\ state = GET_ADDRESS
              /\ Len(address_buffer') = 6
              /\ state' = GET_DATA_NIBBLES)
    /\ (ev' = "result" /\ state = START) => UNCHANGED hlaVars

\* C14: the state-transition graph. The decoder starts in START; a disable
\* leaves it in START and an enable in GET_MODE; a bit frame changes the
\* state only from GET_MODE to GET_COMMAND or GET_ADDRESS with the 3rd mode
\* bit and from GET_ADDRESS to GET_DATA_NIBBLES with the 6th address bit;
\* a bit frame received in START changes no attribute of the decoder.
C14_TransitionGraph ==
    /\ state = START
    /\ [][C14_Step]_vars

\* a bit frame arrived in START after a transaction, whose fields are still
\* there, and the decoder stayed in START
C14_Witness ==
    /\ ev = "result"
    /\ prev_state = START
    /\ state = START
    /\ mode_type # None
    /\ mode_buffer = <<1, 0, 1>>

\* start_time of the first frame of the window: the frames of an open window
\* are the last Len(win) 'result' frames
WinStart == now - Len(win)

\* the place in the window of the bit that completed the last full nibble, or
\* the command word
WinLastComplete == IF WinMode = 4 THEN 12 ELSE 9 + 4 * WinNibbleCount

C16_IdleDisableSilent == (ev = "disable" /\ prev_state = START) => ret = None

\* C17: an enable that arrives in a collecting state, whatever has been
\* collected, returns None and discards the open transaction: what the next
\* disable returns is built from the frames after that enable alone, its
\* start time included.
C17_RestartDiscards ==
    /\ (ev = "enable" /\ prev_state # START) => (ret = None /\ ~raised)
    /\ (WindowClosed /\ WellFormed /\ discarded # None) =>
           /\ Returned = ExpectedRecord
           /\ ret # None => ret[1].start_time = WinStart

\* an enable discarded a complete command transaction of 12 bits, a bit
\* followed, and the disable returned nothing
C17_Witness ==
    /\ WindowClosed
    /\ discarded = Some(12)
    /\ Len(win) = 1
    /\ ret = None

\* C18: command mode reports only the first command word. A command
\* transaction of 9 + j command bits, j >= 0, returns the record of its first
\* 9 command bits: command, command_bits and end_time are theirs, whatever
\* bits follow.
C18_FirstCommandWord ==
    (WindowClosed /\ WellFormed /\ Len(win) >= 12 /\ WinMode = 4) =>
        /\ ret # None
        /\ ret[1].type = "Command (0b100)"
        /\ ret[1].data = CommandFields
        /\ ret[1].end_time = WinStart + 12

\* the word SYS DIS followed by nine 1 bits: a second whole word, not
\* reported
C18_Witness ==
    /\ WindowClosed
    /\ WinBits = <<1, 0, 0, 0, 0, 0, 0, 0, 0, 0, 0, 0,
                   1, 1, 1, 1, 1, 1, 1, 1, 1>>
    /\ ret # None
    /\ ret[1].end_time = 12
    /\ ret[1].data = << <<"command", Some("SYS DIS")>>,
                        <<"command_bits", Some("0b000000000")>> >>

\* the frames since the last enable are those of a command transaction
WinIsCommand == Len(win) >= 3 /\ WinMode = 4

\* C20: the two decoder variants agree outside command mode. Given the same
\* frames, the decoder of HighLevelAnalyzer.py returns at every frame what
\* the decoder of HT1621.py returns (None, or a record with the same label,
\* times and fields), unless the frames since the last enable begin with the
\* mode bits 1,0,0; such a transaction HighLevelAnalyzer.py decodes as 6
\* address bits and nibbles.
C20_VariantsAgree ==
    /\ ~WinIsCommand => (h_ret = ret /\ h_raised = raised)
    /\ (WindowClosed /\ WinIsCommand) =>
          IF Len(win) >= 13
          THEN /\ h_ret # None
               /\ h_ret[1].type = "Command (0b100)"
               /\ h_ret[1].data = AddressFields
          ELSE h_ret = None

\* a Write transaction of 13 bits: both decoders return the record of
\* address 0x01 and data0 0x8
C20_Witness ==
    /\ WindowClosed
    /\ Len(win) = 13
    /\ WinMode = 5
    /\ ret # None
    /\ h_ret = ret
    /\ h_ret[1].data = << <<"address", Some("0x01")>>,
                          <<"data0", Some("0x8")>> >>

\* lookup_command returns the name of entry i for at least one 9-bit word
EntryReturned(i) ==
    \E bits \in 0..511 : lookup_command(bits) = Some(HT1621_COMMAND[i].name)

\* C19 as stated: no entry of HT1621_COMMAND is completely shadowed. Every
\* entry that matches a command word the decoder has completed is returned
\* by lookup_command for at least one 9-bit word.
C19_NoEntryShadowed ==
    \A i \in 1..Len(HT1621_COMMAND) :
        (command_bits # None /\ CmdMatches(command_bits[1], HT1621_COMMAND[i]))
            => EntryReturned(i)

TypeOK ==
    /\ state \in {START, GET_MODE, GET_ADDRESS, GET_DATA_NIBBLES, GET_COMMAND}
    /\ now \in 0..FrameLimit
    /\ h_state \in {START, GET_MODE, GET_ADDRESS, GET_DATA_NIBBLES}

====
